---------------------------- MODULE Spec2Model ----------------------------
(***************************************************************************)
(* gibb: a multicast broadcaster built from a chain of one-slot channels.  *)
(*                                                                         *)
(* A Cell is a `chan message` of capacity 1.  Broadcaster.Write sends      *)
(* message{v, next} into the tail Cell and moves the write cursor to next. *)
(* A Receiver inspects the Cell at its read cursor by receiving the        *)
(* message and sending the same message back, and consumes it by moving    *)
(* its cursor to message.c.                                                *)
(*                                                                         *)
(* Every statement that can block or that another goroutine can observe   *)
(* is one action: a mutex Lock, a channel send, a channel receive/select.  *)
(***************************************************************************)
EXTENDS Naturals, Sequences, FiniteSets

\* ------------------------------------------------------------------ bounds

\* Write calls made in one behaviour (bounds the number of Cells).
MaxWrites == 2

\* ------------------------------------------------------------ the universe

\* Goroutines calling Broadcaster.Write.
Writers == {"w1", "w2"}

\* Receivers handed out by Broadcaster.Listen (one Listen call each).
Receivers == {"r1", "r2"}

\* Goroutines calling the read operations of the Receivers.
Clients == {"t1", "t2"}

\* The values written: one of the shape "int", one of the shape "string".
Values == {"1", "a"}

Shapes == {"int", "string"}

\* The shape (dynamic type) of a written value.
Shape(v) == IF v = "1" THEN "int" ELSE "string"

\* Nobody holds the mutex.
Free == "free"

\* The nil channel: the c of the zero message, the cursor of no Receiver.
NilChan == 0

\* The nil interface value: the v of the zero message.
NilVal == "nil"

\* message{}: what readCancel returns when it is cancelled.
ZeroMessage == [v |-> NilVal, c |-> NilChan]

\* The Cell New() makes: the first channel of the model.
FirstCell == 1

\* make(chan message, 1): the capacity of every Cell.
ChanCap == 1

\* The operations of a Receiver that go through readCancel.
CancelOps == {"ReadCancel", "PeekCancel", "ReadValCancel"}

AlwaysOps == {"Read", "Peek"}

Ops == AlwaysOps \cup CancelOps

\* The operations that narrow the value into a typed pointer.
TypedOps == {"ReadVal", "ReadValCancel"}

\* The operations that loop over other exported operations.
MustOps == {"MustReadVal", "MustReadValCancel"}

VARIABLES
    chans,      \* chans[c]: the buffer of channel c, a sequence of messages
    bc,         \* Broadcaster.c, the write cursor
    bmx,        \* Broadcaster.mx: its holder, or Free
    wpc,        \* wpc[w]: where writer w stands in Write
    wv,         \* wv[w]: the v of w's Write call
    wc,         \* wc[w]: the c of w's Write call
    lpc,        \* lpc[r]: where the Listen call that makes r stands
    rc,         \* rc[r]: Receiver.c, the read cursor (NilChan before Listen)
    rmx,        \* rmx[r]: Receiver.mx: its holder, or Free
    pc,         \* pc[t]: where client t stands in its call
    op,         \* op[t]: the operation t called
    rcv,        \* rcv[t]: the Receiver t called it on
    tgt,        \* tgt[t]: the shape of the pointer passed to ReadValCancel
    sig,        \* sig[t]: the cancel channel of the call: never/open/fired
    msg,        \* msg[t]: readCancel's msg
    ok,         \* ok[t]: readCancel's ok
    at,         \* at[t]: the statement of readCancel that returned
    written,    \* history: the values of the Write calls, in lock order
    listenAt,   \* history: listenAt[r] = Len(written) when Listen locked
    reads,      \* history: reads[r]: the values r's reads returned
    lastPeek,   \* history: what the last peek of r saw, since r last moved
    outer,      \* outer[t]: the looping operation t called, op[t] running in it
    callAt,     \* history: callAt[t]: the read cursor when outer[t] was called
    out,        \* out[t]: what the consumer received from the vc of t's ReadChan
    closes,     \* closes[t]: how many times that vc was closed
    cpc,        \* cpc[t]: the consumer of that vc: none/recv/gone
    stopAt      \* history: stopAt[t]: {Len(out[t])} when the consumer closed cc

vars == <<chans, bc, bmx, wpc, wv, wc, lpc, rc, rmx, pc, op, rcv, tgt, sig,
          msg, ok, at, written, listenAt, reads, lastPeek,
          outer, callAt, out, closes, cpc, stopAt>>

bvars == <<chans, bc, bmx, wpc, wv, wc, lpc, written, listenAt>>

wvars == <<wpc, wv, wc>>

tvars == <<pc, op, rcv, tgt, sig, msg, ok, at>>

hvars == <<written, listenAt, reads, lastPeek>>

avars == <<outer, callAt, out, closes, cpc, stopAt>>

\* cc is not closed: no stop is recorded.
NoStop == {}

NoPeek == "none"

\* New(): one empty Cell, the write cursor on it; nothing else has run.
Init ==
    /\ chans = << <<>> >>
    /\ bc = FirstCell
    /\ bmx = Free
    /\ wpc = [w \in Writers |-> "idle"]
    /\ wv = [w \in Writers |-> NilVal]
    /\ wc = [w \in Writers |-> NilChan]
    /\ lpc = [r \in Receivers |-> "idle"]
    /\ rc = [r \in Receivers |-> NilChan]
    /\ rmx = [r \in Receivers |-> Free]
    /\ pc = [t \in Clients |-> "idle"]
    /\ op = [t \in Clients |-> "none"]
    /\ rcv = [t \in Clients |-> "none"]
    /\ tgt = [t \in Clients |-> "none"]
    /\ sig = [t \in Clients |-> "never"]
    /\ msg = [t \in Clients |-> ZeroMessage]
    /\ ok = [t \in Clients |-> FALSE]
    /\ at = [t \in Clients |-> "none"]
    /\ written = <<>>
    /\ listenAt = [r \in Receivers |-> 0]
    /\ reads = [r \in Receivers |-> <<>>]
    /\ lastPeek = [r \in Receivers |-> NoPeek]
    /\ outer = [t \in Clients |-> "none"]
    /\ callAt = [t \in Clients |-> NilChan]
    /\ out = [t \in Clients |-> <<>>]
    /\ closes = [t \in Clients |-> 0]
    /\ cpc = [t \in Clients |-> "none"]
    /\ stopAt = [t \in Clients |-> NoStop]

\* ------------------------------------------------------------- Broadcaster

\* A channel send `ch <- m` can proceed: the buffer has room.
CanSend(ch) == ch # NilChan /\ Len(chans[ch]) < ChanCap

\* A channel receive `<-ch` can proceed: the buffer holds a message.
CanRecv(ch) == ch # NilChan /\ Len(chans[ch]) > 0

\* Write, first statement: c := make(chan message, 1), for a v chosen in vs.
WriteCall(w, vs) ==
    /\ wpc[w] = "idle"
    /\ Len(chans) < MaxWrites + 1
    /\ \E v \in vs :
          wv' = [wv EXCEPT ![w] = v]
    /\ chans' = Append(chans, <<>>)
    /\ wc' = [wc EXCEPT ![w] = Len(chans) + 1]
    /\ wpc' = [wpc EXCEPT ![w] = "lock"]
    /\ UNCHANGED <<avars, bc, bmx, lpc, rc, rmx, tvars, hvars>>

\* Mutant: Lock that excludes nobody.
MutexFreeAlways(m) == m = m

\* The mutex can be taken.
MutexFree(m) == m = Free

\* Write: b.mx.Lock().  The history records the order of the Write calls.
WriteLock(w) ==
    /\ wpc[w] = "lock"
    /\ MutexFree(bmx)
    /\ bmx' = w
    /\ wpc' = [wpc EXCEPT ![w] = "send"]
    /\ written' = Append(written, wv[w])
    /\ UNCHANGED <<avars, chans, bc, wv, wc, lpc, rc, rmx, tvars,
                   listenAt, reads, lastPeek>>

\* Mutant: Write that sends message{v, b.c}, the filled Cell as its own next.
WriteSendLinksBack(w) ==
    /\ wpc[w] = "send"
    /\ CanSend(bc)
    /\ chans' = [chans EXCEPT ![bc] = Append(@, [v |-> wv[w], c |-> bc])]
    /\ wpc' = [wpc EXCEPT ![w] = "advance"]
    /\ UNCHANGED <<avars, bc, bmx, wv, wc, lpc, rc, rmx, tvars, hvars>>

\* Write: b.c <- message{v, c}.
WriteSend(w) ==
    /\ wpc[w] = "send"
    /\ CanSend(bc)
    /\ chans' = [chans EXCEPT ![bc] = Append(@, [v |-> wv[w], c |-> wc[w]])]
    /\ wpc' = [wpc EXCEPT ![w] = "advance"]
    /\ UNCHANGED <<avars, bc, bmx, wv, wc, lpc, rc, rmx, tvars, hvars>>

\* Mutant: Write that leaves the write cursor on the Cell it filled.
NextTailStays(c) == bc

\* The write cursor after a Write whose new Cell is c.
NextTail(c) == c

\* Write: b.c = c; b.mx.Unlock(); return.
WriteAdvance(w) ==
    /\ wpc[w] = "advance"
    /\ bc' = NextTail(wc[w])
    /\ bmx' = Free
    /\ wpc' = [wpc EXCEPT ![w] = "idle"]
    /\ wv' = [wv EXCEPT ![w] = NilVal]
    /\ wc' = [wc EXCEPT ![w] = NilChan]
    /\ UNCHANGED <<avars, chans, lpc, rc, rmx, tvars, hvars>>

\* Listen: b.mx.Lock().
ListenLock(r) ==
    /\ lpc[r] = "idle"
    /\ MutexFree(bmx)
    /\ bmx' = r
    /\ lpc' = [lpc EXCEPT ![r] = "locked"]
    /\ listenAt' = [listenAt EXCEPT ![r] = Len(written)]
    /\ UNCHANGED <<avars, chans, bc, wvars, rc, rmx, tvars,
                   written, reads, lastPeek>>

\* Mutant: Listen hands out the head of the chain, not its tail.
ListenCursorHead == FirstCell

\* The read cursor Listen gives the new Receiver.
ListenCursor == bc

\* Listen: return &Receiver{sync.Mutex{}, b.c}, then the deferred Unlock.
ListenReturn(r) ==
    /\ lpc[r] = "locked"
    /\ rc' = [rc EXCEPT ![r] = ListenCursor]
    /\ bmx' = Free
    /\ lpc' = [lpc EXCEPT ![r] = "done"]
    /\ UNCHANGED <<avars, chans, bc, wvars, rmx, tvars, hvars>>


\* ---------------------------------------------------------------- Receiver

\* fill.Fill(v, x) == nil: x can be assigned through the pointer v, whose
\* element has the shape target.
Fill(target, x) == Shape(x) = target

\* A client calls an operation on a Receiver it got from Listen.  Read and
\* Peek pass `always` a fresh channel nobody closes, ReadVal has no cancel
\* channel; the other operations get the caller's cancel channel, fired
\* already or not yet.
Call(t, rs, os) ==
    /\ pc[t] = "idle"
    /\ \E r \in rs, o \in os :
          /\ lpc[r] = "done"
          /\ rcv' = [rcv EXCEPT ![t] = r]
          /\ op' = [op EXCEPT ![t] = o]
          /\ \E s \in IF o \in CancelOps THEN {"open", "fired"} ELSE {"never"} :
                sig' = [sig EXCEPT ![t] = s]
          /\ \E g \in IF o \in TypedOps THEN Shapes ELSE {"none"} :
                tgt' = [tgt EXCEPT ![t] = g]
    /\ pc' = [pc EXCEPT ![t] = "lock"]
    /\ UNCHANGED <<avars, bvars, rc, rmx, msg, ok, at, reads, lastPeek>>

\* The caller's cancel channel is closed (or its timer fires) during the call.
Fire(t) ==
    /\ pc[t] # "idle"
    /\ sig[t] = "open"
    /\ sig' = [sig EXCEPT ![t] = "fired"]
    /\ UNCHANGED <<avars, bvars, rc, rmx, pc, op, rcv, tgt, msg, ok, at,
                   reads, lastPeek>>

\* Mutant: every operation goes straight to the blocking receive or select.
AfterLockNoProbe(o) == "wait"

\* What runs under the lock: ReadVal calls read(), a bare receive; the other
\* operations call readCancel, which starts with its first select.
AfterLock(o) == IF o = "ReadVal" THEN "wait" ELSE "probe"

\* Mutant: a cancel channel that is ready before anybody closed it.
CancelReadyUnclosed(t) == op[t] \in CancelOps /\ sig[t] # "never"

\* The cancel channel the running operation hands to readCancel is ready: the
\* caller's channel for the Cancel operations, never for the others.
CancelReady(t) == op[t] \in CancelOps /\ sig[t] = "fired"

\* r.mx.Lock(), the first statement of every exported operation.
Lock(t) ==
    /\ pc[t] = "lock"
    /\ MutexFree(rmx[rcv[t]])
    /\ rmx' = [rmx EXCEPT ![rcv[t]] = t]
    /\ pc' = [pc EXCEPT ![t] = AfterLock(op[t])]
    /\ UNCHANGED <<avars, bvars, rc, op, rcv, tgt, sig, msg, ok, at,
                   reads, lastPeek>>

\* readCancel returns message{}, false.
Cancelled(t, where) ==
    /\ msg' = [msg EXCEPT ![t] = ZeroMessage]
    /\ ok' = [ok EXCEPT ![t] = FALSE]
    /\ at' = [at EXCEPT ![t] = where]
    /\ pc' = [pc EXCEPT ![t] = "ret"]

\* Mutant: readCancel without its first select.
ProbeSkipped(t) ==
    /\ pc[t] = "probe"
    /\ pc' = [pc EXCEPT ![t] = "wait"]
    /\ UNCHANGED <<avars, bvars, rc, rmx, op, rcv, tgt, sig, msg, ok, at,
                   reads, lastPeek>>

\* readCancel, first select: `case <-c: return message{}, false` when the
\* cancel channel is ready, `default:` otherwise.
Probe(t) ==
    /\ pc[t] = "probe"
    /\ IF CancelReady(t)
          THEN Cancelled(t, "probe")
          ELSE /\ pc' = [pc EXCEPT ![t] = "wait"]
               /\ UNCHANGED <<msg, ok, at>>
    /\ UNCHANGED <<avars, bvars, rc, rmx, op, rcv, tgt, sig, reads, lastPeek>>

\* Mutant: a second select that gives up (`default:`) instead of waiting.
WaitCancelEager(t) ==
    /\ pc[t] = "wait"
    /\ Cancelled(t, "select")
    /\ UNCHANGED <<avars, bvars, rc, rmx, op, rcv, tgt, sig, reads, lastPeek>>

\* readCancel, second select, `case <-c`: taken when the cancel channel is
\* ready (select chooses among the ready cases).
WaitCancel(t) ==
    /\ pc[t] = "wait"
    /\ CancelReady(t)
    /\ Cancelled(t, "select")
    /\ UNCHANGED <<avars, bvars, rc, rmx, op, rcv, tgt, sig, reads, lastPeek>>

\* readCancel, second select, `case msg := <-r.c`: the message leaves the Cell.
WaitRecv(t) ==
    /\ pc[t] = "wait"
    /\ CanRecv(rc[rcv[t]])
    /\ msg' = [msg EXCEPT ![t] = Head(chans[rc[rcv[t]]])]
    /\ chans' = [chans EXCEPT ![rc[rcv[t]]] = Tail(@)]
    /\ pc' = [pc EXCEPT ![t] = "putback"]
    /\ UNCHANGED <<avars, bc, bmx, wvars, lpc, written, listenAt, rc, rmx, op, rcv,
                   tgt, sig, ok, at, reads, lastPeek>>

\* Mutant: readCancel that does not send the message back.
PutBackDropped(t) ==
    /\ pc[t] = "putback"
    /\ ok' = [ok EXCEPT ![t] = TRUE]
    /\ at' = [at EXCEPT ![t] = "recv"]
    /\ pc' = [pc EXCEPT ![t] = "ret"]
    /\ UNCHANGED <<avars, bvars, rc, rmx, op, rcv, tgt, sig, msg, reads, lastPeek>>

\* Mutant: readCancel that sends back the value without its next Cell,
\* r.c <- message{msg.v, nil}.
PutBackUnlinked(t) ==
    /\ pc[t] = "putback"
    /\ CanSend(rc[rcv[t]])
    /\ chans' = [chans EXCEPT
           ![rc[rcv[t]]] = Append(@, [v |-> msg[t].v, c |-> NilChan])]
    /\ ok' = [ok EXCEPT ![t] = TRUE]
    /\ at' = [at EXCEPT ![t] = "recv"]
    /\ pc' = [pc EXCEPT ![t] = "ret"]
    /\ UNCHANGED <<avars, bc, bmx, wvars, lpc, written, listenAt, rc, rmx,
                   op, rcv, tgt, sig, msg, reads, lastPeek>>

\* readCancel: r.c <- msg; return msg, true.
PutBack(t) ==
    /\ pc[t] = "putback"
    /\ CanSend(rc[rcv[t]])
    /\ chans' = [chans EXCEPT ![rc[rcv[t]]] = Append(@, msg[t])]
    /\ ok' = [ok EXCEPT ![t] = TRUE]
    /\ at' = [at EXCEPT ![t] = "recv"]
    /\ pc' = [pc EXCEPT ![t] = "ret"]
    /\ UNCHANGED <<avars, bc, bmx, wvars, lpc, written, listenAt, rc, rmx, op, rcv,
                   tgt, sig, msg, reads, lastPeek>>

PeekOps == {"Peek", "PeekCancel"}

\* Mutant: PeekCancel that swaps like ReadCancel.
SwapsPeekToo(o, g, m, found) ==
    CASE o \in {"Read", "ReadCancel", "Peek", "PeekCancel"} -> found
      [] o \in TypedOps -> found /\ Fill(g, m.v)

\* Mutant: ReadCancel that swaps without looking at ok.
SwapsAlways(o, g, m, found) ==
    CASE o \in {"Read", "ReadCancel"} -> TRUE
      [] o \in {"Peek", "PeekCancel"} -> FALSE
      [] o \in TypedOps -> found /\ Fill(g, m.v)

\* Mutant: ReadCancel with `if !ok { r.swap(msg) }`.
SwapsInverted(o, g, m, found) ==
    CASE o \in {"Read", "ReadCancel"} -> ~found
      [] o \in {"Peek", "PeekCancel"} -> FALSE
      [] o \in TypedOps -> found /\ Fill(g, m.v)

\* Mutant: a typed read that swaps before it knows whether the value fills.
SwapsUnfilled(o, g, m, found) ==
    CASE o \in {"Read", "ReadCancel"} -> found
      [] o \in {"Peek", "PeekCancel"} -> FALSE
      [] o \in TypedOps -> found

\* Whether operation o, after readCancel returned (m, found), calls r.swap(m):
\* ReadCancel `if ok`, PeekCancel never, ReadVal and ReadValCancel when they
\* read and filled.
Swaps(o, g, m, found) ==
    CASE o \in {"Read", "ReadCancel"} -> found
      [] o \in PeekOps -> FALSE
      [] o \in TypedOps -> found /\ Fill(g, m.v)

\* Whether operation o hands the caller a value it read: Val of the result of
\* Read and ReadCancel when Okay, the filled pointer of ReadVal and
\* ReadValCancel.
Delivers(o, g, m, found) ==
    \/ o \in {"Read", "ReadCancel"} /\ found
    \/ o \in TypedOps /\ found /\ Fill(g, m.v)

\* Mutant: a swap that goes on to the Cell after next when the next is filled.
swapSkips(m) ==
    IF m.c # NilChan /\ chans[m.c] # <<>> THEN Head(chans[m.c]).c ELSE m.c

\* swap: r.c = m.c.
swap(m) == m.c

\* Mutant: a looping operation that, when it gives up, puts the cursor back
\* where the call found it.
FinishRollsBack(t) ==
    LET r == rcv[t]
        moved == Swaps(op[t], tgt[t], msg[t], ok[t])
        back == outer[t] \in MustOps /\ op[t] \in TypedOps /\ ~ok[t]
    IN  /\ rc' = [rc EXCEPT ![r] = IF back THEN callAt[t]
                                  ELSE IF moved THEN swap(msg[t]) ELSE @]
        /\ reads' = [reads EXCEPT
               ![r] = IF Delivers(op[t], tgt[t], msg[t], ok[t])
                         THEN Append(@, msg[t].v) ELSE @]
        /\ lastPeek' = [lastPeek EXCEPT
               ![r] = IF moved THEN NoPeek
                      ELSE IF op[t] \in PeekOps /\ ok[t] THEN msg[t].v
                      ELSE @]
        /\ rmx' = [rmx EXCEPT ![r] = Free]

\* The rest of the exported operation op[t] after readCancel (or read)
\* returned: the swap if any and the deferred r.mx.Unlock().
Finish(t) ==
    LET r == rcv[t]
        moved == Swaps(op[t], tgt[t], msg[t], ok[t])
    IN  /\ rc' = [rc EXCEPT ![r] = IF moved THEN swap(msg[t]) ELSE @]
        /\ reads' = [reads EXCEPT
               ![r] = IF Delivers(op[t], tgt[t], msg[t], ok[t])
                         THEN Append(@, msg[t].v) ELSE @]
        /\ lastPeek' = [lastPeek EXCEPT
               ![r] = IF moved THEN NoPeek
                      ELSE IF op[t] \in PeekOps /\ ok[t] THEN msg[t].v
                      ELSE @]
        /\ rmx' = [rmx EXCEPT ![r] = Free]

\* An operation called by the client itself ends: Finish, then the return to
\* the caller.
Return(t) ==
    /\ pc[t] = "ret"
    /\ outer[t] = "none"
    /\ Finish(t)
    /\ pc' = [pc EXCEPT ![t] = "idle"]
    /\ op' = [op EXCEPT ![t] = "none"]
    /\ rcv' = [rcv EXCEPT ![t] = "none"]
    /\ tgt' = [tgt EXCEPT ![t] = "none"]
    /\ sig' = [sig EXCEPT ![t] = "never"]
    /\ msg' = [msg EXCEPT ![t] = ZeroMessage]
    /\ ok' = [ok EXCEPT ![t] = FALSE]
    /\ at' = [at EXCEPT ![t] = "none"]
    /\ UNCHANGED <<avars, bvars>>

\* ------------------------------------------- MustReadVal, MustReadValCancel

\* The typed read a looping operation repeats.
Typed(o) == IF o = "MustReadVal" THEN "ReadVal" ELSE "ReadValCancel"

\* A client calls MustReadVal(v) or MustReadValCancel(v, c): the call starts
\* with its first ReadVal or ReadValCancel.
MustCall(t, rs, os) ==
    /\ pc[t] = "idle"
    /\ \E r \in rs, o \in os :
          /\ lpc[r] = "done"
          /\ rcv' = [rcv EXCEPT ![t] = r]
          /\ outer' = [outer EXCEPT ![t] = o]
          /\ op' = [op EXCEPT ![t] = Typed(o)]
          /\ callAt' = [callAt EXCEPT ![t] = rc[r]]
          /\ \E s \in IF Typed(o) \in CancelOps
                         THEN {"open", "fired"} ELSE {"never"} :
                sig' = [sig EXCEPT ![t] = s]
    /\ \E g \in Shapes :
          tgt' = [tgt EXCEPT ![t] = g]
    /\ pc' = [pc EXCEPT ![t] = "lock"]
    /\ UNCHANGED <<bvars, rc, rmx, msg, ok, at, reads, lastPeek,
                   out, closes, cpc, stopAt>>

\* ReadVal returned true, ReadValCancel returned a result that is Good().
Good(t) == op[t] \in TypedOps /\ ok[t] /\ Fill(tgt[t], msg[t].v)

\* ReadValCancel returned a result with DidRead false.
GaveUp(t) == op[t] \in TypedOps /\ ~ok[t]

\* Mutant: a loop that skips with r.Read() whatever the typed read said.
MustSkipsMatching(t) == op[t] \in TypedOps /\ ok[t]

\* The typed read found a value of another shape: the loop goes on.
MustSkips(t) == op[t] \in TypedOps /\ ok[t] /\ ~Fill(tgt[t], msg[t].v)

\* The loop of MustReadVal and MustReadValCancel: the typed read that did not
\* fill ends (its swap-free Finish) and r.Read() starts; r.Read() ends and the
\* typed read starts again.  Each is an exported operation that takes r.mx
\* itself, so r.mx is free between them.
MustLoop(t) ==
    /\ pc[t] = "ret"
    /\ outer[t] \in MustOps
    /\ MustSkips(t) \/ op[t] = "Read"
    /\ Finish(t)
    /\ op' = [op EXCEPT ![t] = IF @ = "Read" THEN Typed(outer[t]) ELSE "Read"]
    /\ pc' = [pc EXCEPT ![t] = "lock"]
    /\ msg' = [msg EXCEPT ![t] = ZeroMessage]
    /\ ok' = [ok EXCEPT ![t] = FALSE]
    /\ at' = [at EXCEPT ![t] = "none"]
    /\ UNCHANGED <<avars, bvars, rcv, tgt, sig>>

\* MustReadVal returns, MustReadValCancel returns true (the typed read
\* filled) or false (it did not read).
MustReturn(t) ==
    /\ pc[t] = "ret"
    /\ outer[t] \in MustOps
    /\ Good(t) \/ GaveUp(t)
    /\ Finish(t)
    /\ pc' = [pc EXCEPT ![t] = "idle"]
    /\ op' = [op EXCEPT ![t] = "none"]
    /\ outer' = [outer EXCEPT ![t] = "none"]
    /\ callAt' = [callAt EXCEPT ![t] = NilChan]
    /\ rcv' = [rcv EXCEPT ![t] = "none"]
    /\ tgt' = [tgt EXCEPT ![t] = "none"]
    /\ sig' = [sig EXCEPT ![t] = "never"]
    /\ msg' = [msg EXCEPT ![t] = ZeroMessage]
    /\ ok' = [ok EXCEPT ![t] = FALSE]
    /\ at' = [at EXCEPT ![t] = "none"]
    /\ UNCHANGED <<bvars, out, closes, cpc, stopAt>>

\* ---------------------------------------------------------------- ReadChan

\* Mutant: a goroutine that loops over r.PeekCancel(cc).
ChanPeeks == "PeekCancel"

\* The exported operation the goroutine loops over: r.ReadCancel(cc).
ChanReads == "ReadCancel"

\* ReadChan(): vc and cc are made and the goroutine t starts; it begins with
\* r.ReadCancel(cc).  The caller holds vc and cc: it is the consumer of vc.
\* A client starts one adapter in a behaviour.
ChanCall(t, rs) ==
    /\ pc[t] = "idle"
    /\ cpc[t] = "none"
    /\ \E r \in rs :
          /\ lpc[r] = "done"
          /\ rcv' = [rcv EXCEPT ![t] = r]
          /\ callAt' = [callAt EXCEPT ![t] = rc[r]]
    /\ outer' = [outer EXCEPT ![t] = "ReadChan"]
    /\ op' = [op EXCEPT ![t] = ChanReads]
    /\ sig' = [sig EXCEPT ![t] = "open"]
    /\ cpc' = [cpc EXCEPT ![t] = "recv"]
    /\ pc' = [pc EXCEPT ![t] = "lock"]
    /\ UNCHANGED <<bvars, rc, rmx, tgt, msg, ok, at, reads, lastPeek,
                   out, closes, stopAt>>

\* The goroutine after r.ReadCancel(cc) returned: `if !result.Okay { return }`
\* runs the deferred close(vc), otherwise `vc <- result.Val`.
ChanAfter(found) == IF found THEN "send" ELSE "close"

\* The goroutine's r.ReadCancel(cc) returns.
ChanLoop(t) ==
    /\ pc[t] = "ret"
    /\ outer[t] = "ReadChan"
    /\ Finish(t)
    /\ pc' = [pc EXCEPT ![t] = ChanAfter(ok[t])]
    /\ ok' = [ok EXCEPT ![t] = FALSE]
    /\ at' = [at EXCEPT ![t] = "none"]
    /\ UNCHANGED <<avars, bvars, op, rcv, tgt, sig, msg>>

\* vc <- result.Val: vc is unbuffered, so the send happens when the consumer
\* receives; then the goroutine calls r.ReadCancel(cc) again.
ChanSend(t) ==
    /\ pc[t] = "send"
    /\ cpc[t] = "recv"
    /\ out' = [out EXCEPT ![t] = Append(@, msg[t].v)]
    /\ msg' = [msg EXCEPT ![t] = ZeroMessage]
    /\ pc' = [pc EXCEPT ![t] = "lock"]
    /\ UNCHANGED <<bvars, rc, rmx, op, rcv, tgt, sig, ok, at, reads, lastPeek,
                   outer, callAt, closes, cpc, stopAt>>

\* defer close(vc): the goroutine ends.
ChanClose(t) ==
    /\ pc[t] = "close"
    /\ closes' = [closes EXCEPT ![t] = @ + 1]
    /\ pc' = [pc EXCEPT ![t] = "closed"]
    /\ UNCHANGED <<bvars, rc, rmx, op, rcv, tgt, sig, msg, ok, at, reads,
                   lastPeek, outer, callAt, out, cpc, stopAt>>

\* The consumer closes cc, between two receives from vc.
ChanStop(t) ==
    /\ outer[t] = "ReadChan"
    /\ sig[t] = "open"
    /\ sig' = [sig EXCEPT ![t] = "fired"]
    /\ stopAt' = [stopAt EXCEPT ![t] = {Len(out[t])}]
    /\ UNCHANGED <<bvars, rc, rmx, pc, op, rcv, tgt, msg, ok, at, reads,
                   lastPeek, outer, callAt, out, closes, cpc>>

\* The consumer stops receiving from vc.
ChanLeave(t) ==
    /\ cpc[t] = "recv"
    /\ cpc' = [cpc EXCEPT ![t] = "gone"]
    /\ UNCHANGED <<bvars, rc, rmx, tvars, reads, lastPeek,
                   outer, callAt, out, closes, stopAt>>

\* ------------------------------------------------------------ specification

\* The steps of the writers W, which write values of vs, and of the Listen
\* calls L.
BroadcasterStep(W, L, vs) ==
    \/ \E w \in W : WriteCall(w, vs)
    \/ \E w \in W : WriteLock(w)
    \/ \E w \in W : WriteSend(w)
    \/ \E w \in W : WriteAdvance(w)
    \/ \E r \in L : ListenLock(r)
    \/ \E r \in L : ListenReturn(r)

\* The steps of the clients T, where client t calls the operations os[t] on
\* the Receivers rs[t].
ClientStep(T, rs, os) ==
    \/ \E t \in T : Call(t, rs[t], os[t])
    \/ \E t \in T : Lock(t)
    \/ \E t \in T : Probe(t)
    \/ \E t \in T : WaitRecv(t)
    \/ \E t \in T : PutBack(t)
    \/ \E t \in T : Return(t)

\* The steps that exist only when a cancel channel can fire.
CancelStep(T) ==
    \/ \E t \in T : Fire(t)
    \/ \E t \in T : WaitCancel(t)

\* The statements of one Write call after its first.
WriterRun(w) == WriteLock(w) \/ WriteSend(w) \/ WriteAdvance(w)

\* The statements of one Listen call.
ListenRun(r) == ListenLock(r) \/ ListenReturn(r)

\* The statements of one call of a client, once it is made.
ClientRun(t) ==
    Lock(t) \/ Probe(t) \/ WaitCancel(t) \/ WaitRecv(t) \/ PutBack(t) \/ Return(t)

\* What the scheduler and the runtime guarantee to the goroutines W, L, T: a
\* goroutine that can run its next statement runs it, and a goroutine blocked
\* on a mutex or parked on a channel is served in its turn (sync.Mutex hands
\* over to a starving waiter, a channel serves its waiting goroutines first in
\* first out), so it is not overtaken for ever: strong fairness of each
\* goroutine's statements.  Nothing makes a caller start a call or fire a
\* cancel channel.
Fairness(W, L, T) ==
    /\ \A w \in W : SF_vars(WriterRun(w))
    /\ \A r \in L : SF_vars(ListenRun(r))
    /\ \A t \in T : SF_vars(ClientRun(t))

\* Spec: two writers, two Receivers, one client on each Receiver, consuming
\* it through Read only.
OwnReceiver == [t \in Clients |-> IF t = "t1" THEN {"r1"} ELSE {"r2"}]

OnlyReads == [t \in Clients |-> {"Read"}]

Next ==
    \/ BroadcasterStep(Writers, Receivers, Values)
    \/ ClientStep(Clients, OwnReceiver, OnlyReads)

Spec == Init /\ [][Next]_vars

\* The client of r1 reads and peeks, the client of r2 reads.
ReadsAndPeeks ==
    [t \in Clients |-> IF t = "t1" THEN {"Read", "Peek"} ELSE {"Read"}]

\* FairSpecWrite: two writers, and one Receiver with a client that reads and
\* peeks, fairly scheduled.
NextWrite ==
    \/ BroadcasterStep(Writers, {"r1"}, Values)
    \/ ClientStep({"t1"}, OwnReceiver, ReadsAndPeeks)

FairSpecWrite ==
    Init /\ [][NextWrite]_vars /\ Fairness(Writers, {"r1"}, {"t1"})

\* FairSpecPacing: one writer of one value, two Receivers with one client
\* each, fairly scheduled.
NextPacing ==
    \/ BroadcasterStep({"w1"}, Receivers, {"1"})
    \/ ClientStep(Clients, OwnReceiver, ReadsAndPeeks)

FairSpecPacing ==
    Init /\ [][NextPacing]_vars /\ Fairness({"w1"}, Receivers, Clients)

\* SpecCancel: one writer, one Receiver, two clients calling every operation
\* on it, with cancel channels that fire before or during the call or never.
SameReceiver == [t \in Clients |-> {"r1"}]

AllOps == [t \in Clients |-> Ops]

NextCancel ==
    \/ BroadcasterStep({"w1"}, {"r1"}, Values)
    \/ ClientStep(Clients, SameReceiver, AllOps)
    \/ CancelStep(Clients)

SpecCancel == Init /\ [][NextCancel]_vars

\* FairSpecBlocked: one writer of one value, one Receiver, a client that
\* reads it and a client that reads and peeks it with a cancel channel, fairly
\* scheduled.
ReadAndCancel ==
    [t \in Clients |->
        IF t = "t1" THEN {"Read"} ELSE {"ReadCancel", "PeekCancel"}]

NextBlocked ==
    \/ BroadcasterStep({"w1"}, {"r1"}, {"1"})
    \/ ClientStep(Clients, SameReceiver, ReadAndCancel)
    \/ CancelStep(Clients)

FairSpecBlocked ==
    Init /\ [][NextBlocked]_vars /\ Fairness({"w1"}, {"r1"}, Clients)

\* SpecTyped: one writer, one Receiver, one client that calls the typed reads
\* ReadVal and ReadValCancel of either shape, Read and Peek on it.
TypedAndPlain == [t \in Clients |-> TypedOps \cup AlwaysOps]

NextTyped ==
    \/ BroadcasterStep({"w1"}, {"r1"}, Values)
    \/ ClientStep({"t1"}, SameReceiver, TypedAndPlain)
    \/ CancelStep({"t1"})

SpecTyped == Init /\ [][NextTyped]_vars

\* The steps of the looping operations os[t] that client t calls on rs[t].
MustStep(T, rs, os) ==
    \/ \E t \in T : MustCall(t, rs[t], os[t])
    \/ \E t \in T : MustLoop(t)
    \/ \E t \in T : MustReturn(t)

\* The statements of one call of a looping operation, once it is made.
MustRun(t) == ClientRun(t) \/ MustLoop(t) \/ MustReturn(t)

BothMust == [t \in Clients |-> MustOps]

\* SpecMust: one writer, one Receiver, one client that calls MustReadVal and
\* MustReadValCancel of either shape and Read on it, one call at a time.
NextMust ==
    \/ BroadcasterStep({"w1"}, {"r1"}, Values)
    \/ ClientStep({"t1"}, SameReceiver, OnlyReads)
    \/ MustStep({"t1"}, SameReceiver, BothMust)
    \/ CancelStep({"t1"})

SpecMust == Init /\ [][NextMust]_vars

\* The statements under r.mx of the operations the clients T run inside a
\* looping operation or inside the ReadChan goroutine.
InnerStep(T) ==
    \/ \E t \in T : Lock(t)
    \/ \E t \in T : Probe(t)
    \/ \E t \in T : WaitRecv(t)
    \/ \E t \in T : PutBack(t)

\* FairSpecRace: one writer, one Receiver, client t1 calling MustReadVal and
\* MustReadValCancel on it while client t2 calls Read on it, fairly scheduled.
NextRace ==
    \/ BroadcasterStep({"w1"}, {"r1"}, Values)
    \/ MustStep({"t1"}, SameReceiver, BothMust)
    \/ InnerStep({"t1"})
    \/ CancelStep({"t1"})
    \/ ClientStep({"t2"}, SameReceiver, OnlyReads)

FairSpecRace ==
    /\ Init /\ [][NextRace]_vars
    /\ SF_vars(WriterRun("w1")) /\ SF_vars(ListenRun("r1"))
    /\ SF_vars(MustRun("t1")) /\ SF_vars(ClientRun("t2"))

\* The steps of the ReadChan goroutines T on the Receivers rs[t].
ChanStep(T, rs) ==
    \/ \E t \in T : ChanCall(t, rs[t])
    \/ \E t \in T : WaitCancel(t)
    \/ \E t \in T : ChanLoop(t)
    \/ \E t \in T : ChanSend(t)
    \/ \E t \in T : ChanClose(t)

\* The statements of the ReadChan goroutine, once it is started.
AdapterRun(t) ==
    \/ Lock(t) \/ Probe(t) \/ WaitCancel(t) \/ WaitRecv(t) \/ PutBack(t)
    \/ ChanLoop(t) \/ ChanSend(t) \/ ChanClose(t)

\* FairSpecChan: one writer, one Receiver consumed only through the ReadChan
\* goroutine t1, whose consumer receives from vc, closes cc when it likes and
\* may stop receiving; the goroutines fairly scheduled.  Nothing makes the
\* consumer close cc or go on receiving.
NextChan ==
    \/ BroadcasterStep({"w1"}, {"r1"}, Values)
    \/ ChanStep({"t1"}, SameReceiver)
    \/ InnerStep({"t1"})
    \/ ChanStop("t1")
    \/ ChanLeave("t1")

FairSpecChan ==
    /\ Init /\ [][NextChan]_vars
    /\ SF_vars(WriterRun("w1")) /\ SF_vars(ListenRun("r1"))
    /\ SF_vars(AdapterRun("t1"))

\* SpecShared: one writer, one Receiver with the ReadChan goroutine t1 on it,
\* whose consumer goes on receiving, and a client t2 that calls Read on it.
NextShared ==
    \/ BroadcasterStep({"w1"}, {"r1"}, Values)
    \/ ChanStep({"t1"}, SameReceiver)
    \/ InnerStep({"t1"})
    \/ ChanStop("t1")
    \/ ClientStep({"t2"}, SameReceiver, OnlyReads)

SpecShared == Init /\ [][NextShared]_vars

\* ------------------------------------------------------- reading the chain

\* The clients that took the message of Cell c out and have not put it back.
Holders(c) == {t \in Clients : pc[t] = "putback" /\ rc[rcv[t]] = c}

\* A Write has sent into Cell c: its message is in the buffer or with a reader.
CellFilled(c) == c # NilChan /\ (chans[c] # <<>> \/ Holders(c) # {})

\* The message of a filled Cell c.
CellMsg(c) ==
    IF chans[c] # <<>> THEN Head(chans[c])
    ELSE msg[CHOOSE t \in Holders(c) : TRUE]

\* The Cells from c on, following message.c, up to the first unfilled one
\* (at most n + 1 of them).
RECURSIVE CellsFrom(_, _)
CellsFrom(c, n) ==
    IF n = 0 \/ ~CellFilled(c) THEN <<c>>
    ELSE <<c>> \o CellsFrom(CellMsg(c).c, n - 1)

\* The values of the filled Cells from c on (at most n of them).
RECURSIVE ValuesFrom(_, _)
ValuesFrom(c, n) ==
    IF n = 0 \/ ~CellFilled(c) THEN <<>>
    ELSE <<CellMsg(c).v>> \o ValuesFrom(CellMsg(c).c, n - 1)

\* The chain: every Cell from the first one to the unfilled tail.
ChainCells == CellsFrom(FirstCell, Len(chans))

\* The values published so far, in chain order.
ChainValues == ValuesFrom(FirstCell, Len(chans))

\* The place of Cell c in the sequence of Cells cs (0: not in it).
PosIn(cs, c) ==
    IF \E i \in 1..Len(cs) : cs[i] = c
       THEN CHOOSE i \in 1..Len(cs) : cs[i] = c
       ELSE 0

\* The place of Cell c in the chain (0: not in it).
PosOf(c) == PosIn(ChainCells, c)

IsPrefix(s, u) == Len(s) <= Len(u) /\ SubSeq(u, 1, Len(s)) = s

\* The values of the Write calls that locked after r's Listen call locked.
WrittenSince(r) == SubSeq(written, listenAt[r] + 1, Len(written))

\* Client t takes the step that returns from its call.
Returns(t) == pc[t] = "ret" /\ pc'[t] = "idle"

\* ------------------------------------------------------------------ claims

\* C1 (Spec): no drop, in order.  Whatever the interleaving of the Write calls
\* with a Receiver's Read calls, the values its reads have returned so far are
\* a prefix of the values written at or after its Listen call, in write
\* order: nothing omitted, duplicated or reordered.
NoDropInOrder ==
    \A r \in Receivers : IsPrefix(reads[r], WrittenSince(r))

\* C1 witness: r2, consumed through Read only, has read both of two different
\* values while Write calls were interleaved with its reads.
NoDropInOrderWitness ==
    /\ listenAt["r2"] = 0
    /\ Len(reads["r2"]) = 2
    /\ reads["r2"][1] # reads["r2"][2]

\* C3 (Spec): total order under concurrent writers.  The chain holds the
\* values in the order in which the Write calls took the Broadcaster's lock
\* (the last locked Write may not have sent yet), and what each Receiver has
\* read is the stretch of that one chain that ends at its cursor, so any two
\* Receivers read the values they share in the same order.
TotalOrder ==
    LET cells == ChainCells
        values == ChainValues
    IN  /\ IsPrefix(values, written)
        /\ Len(written) <= Len(values) + 1
        /\ \A r \in Receivers :
              lpc[r] = "done" =>
                 LET p == PosIn(cells, rc[r])
                 IN  /\ p > Len(reads[r])
                     /\ reads[r] = SubSeq(values, p - Len(reads[r]), p - 1)

\* C3 witness: the two writers raced (the Cell made second was linked first:
\* its maker took the lock first), and both Receivers read both values.
TotalOrderWitness ==
    /\ CellFilled(FirstCell)
    /\ CellMsg(FirstCell).c = 3
    /\ Len(reads["r1"]) = 2
    /\ reads["r1"][1] # reads["r1"][2]
    /\ reads["r2"] = reads["r1"]

\* C4 (Spec): late subscription.  A Receiver whose Listen locked after N
\* writes has read nothing before write N+1 is in the chain, its first read
\* is the value of write N+1 (none of the first N), and two Receivers made
\* with no Write in between read the same sequence.
LateSubscription ==
    \A r \in Receivers :
       lpc[r] = "done" =>
          /\ listenAt[r] + Len(reads[r]) <= Len(ChainValues)
          /\ reads[r] # <<>> => reads[r][1] = written[listenAt[r] + 1]
          /\ \A q \in Receivers :
                lpc[q] = "done" /\ listenAt[q] = listenAt[r] =>
                   IsPrefix(reads[r], reads[q]) \/ IsPrefix(reads[q], reads[r])

\* C4 witness: r2 listened after one write and read the second, different,
\* value; r1 listened before any write.
LateSubscriptionWitness ==
    /\ listenAt["r2"] = 1
    /\ listenAt["r1"] = 0
    /\ Len(written) = 2
    /\ written[1] # written[2]
    /\ reads["r2"] = <<written[2]>>
    /\ reads["r1"] # <<>>

\* C2 (FairSpecPacing): independent pacing.  Only a call on Receiver r moves r's
\* cursor or adds to what r has read, so what r2 reads does not depend on what
\* is done with r1; and whether the client of r1 never reads, reads, peeks or
\* sits blocked in a Read, a Read on a Receiver whose cursor Cell has been
\* written returns.
IndependentPacing ==
    /\ [][\A r \in Receivers :
             rc'[r] # rc[r] \/ reads'[r] # reads[r] =>
                \/ lpc[r] = "locked"
                \/ \E t \in Clients : rcv[t] = r /\ Returns(t)]_vars
    /\ \A t \in Clients :
          (pc[t] # "idle" /\ op[t] = "Read" /\ CellFilled(rc[rcv[t]]))
             ~> (pc[t] = "idle")

\* C2 witness: r2's Read has returned the second value while r1, which
\* listened before any write, has read nothing and its client sits in a call,
\* holding the message of the first Cell out of its channel.
IndependentPacingWitness ==
    /\ listenAt["r1"] = 0
    /\ reads["r1"] = <<>>
    /\ pc["t1"] = "putback"
    /\ Len(reads["r2"]) = 2
    /\ pc["t2"] = "lock"
    /\ op["t2"] = "Read"

\* C5 (FairSpecWrite): Write never blocks on consumers.  Whatever the Receivers
\* do, a Write that holds the Broadcaster's lock can send into the tail Cell
\* at once, and every Write call that started returns.
WriteNeverBlocks ==
    /\ [](\A w \in Writers : wpc[w] = "send" => CanSend(bc))
    /\ \A w \in Writers : (wpc[w] # "idle") ~> (wpc[w] = "idle")

\* C5 witness: a Write holds the lock and is about to send the second value
\* while the Receiver lags: its client holds the first Cell's message out of
\* its channel, and nothing has been read yet.
WriteNeverBlocksWitness ==
    /\ \E w \in Writers : wpc[w] = "send"
    /\ Len(ChainValues) = 1
    /\ pc["t1"] = "putback"
    /\ rc["r1"] = FirstCell
    /\ reads["r1"] = <<>>

\* C6 (SpecCancel): non-destructive peek.  The return of a Peek or PeekCancel
\* moves no cursor and adds nothing to what was read; and a call that got a
\* value after a peek of the same Receiver, with no consuming call in between,
\* got the value the peek saw (a Read after a Peek, a Peek after a Peek).
NonDestructivePeek ==
    [][\A t \in Clients :
          Returns(t) =>
             /\ op[t] \in PeekOps => rc' = rc /\ reads' = reads
             /\ ok[t] /\ lastPeek[rcv[t]] # NoPeek =>
                   msg[t].v = lastPeek[rcv[t]]]_vars

\* C6 witness: a Read is about to return the second value, which a peek
\* of the same Receiver saw before it.
NonDestructivePeekWitness ==
    /\ pc["t2"] = "ret"
    /\ op["t2"] = "Read"
    /\ ok["t2"]
    /\ Len(reads["r1"]) = 1
    /\ lastPeek["r1"] = msg["t2"].v
    /\ lastPeek["r1"] # reads["r1"][1]

\* C7 (SpecCancel): cancellation returns the value later.  The return of a
\* ReadCancel or ReadValCancel that found nothing moves no cursor and adds
\* nothing to what was read; so, cancelled calls or not, the cursor stands on
\* the Cell right after the values read and the next Read returns the next
\* value written.
CancelKeepsValue ==
    /\ [][\A t \in Clients :
             Returns(t) /\ op[t] \in {"ReadCancel", "ReadValCancel"} /\ ~ok[t]
                => rc' = rc /\ reads' = reads]_vars
    /\ [](\A r \in Receivers :
             lpc[r] = "done" =>
                /\ PosOf(rc[r]) = listenAt[r] + Len(reads[r]) + 1
                /\ IsPrefix(reads[r], WrittenSince(r)))

\* C7 witness: a ReadCancel was cancelled in its wait and returns not found
\* while the value written meanwhile sits in the Cell at the cursor, and the
\* other client's Read waits to be the next call.
CancelKeepsValueWitness ==
    /\ pc["t1"] = "ret"
    /\ op["t1"] = "ReadCancel"
    /\ ~ok["t1"]
    /\ at["t1"] = "select"
    /\ CellFilled(rc["r1"])
    /\ pc["t2"] = "lock"
    /\ op["t2"] = "Read"

\* C8 (SpecCancel): cancellation priority.  A call that reaches readCancel
\* with its cancel channel already fired leaves by the first select with
\* found = false, filled Cell or not, and its return moves no cursor.
CancelPriority ==
    [][\A t \in Clients :
          /\ pc[t] = "probe" /\ sig[t] = "fired" /\ pc'[t] # "probe" =>
                pc'[t] = "ret" /\ ~ok'[t] /\ at'[t] = "probe"
          /\ Returns(t) /\ at[t] = "probe" =>
                ~ok[t] /\ rc' = rc /\ reads' = reads]_vars

\* C8 witness: a ReadCancel, a PeekCancel or a ReadValCancel called with a
\* fired channel returns not found from the first select although the Cell at
\* the cursor is filled.
CancelPriorityWitness ==
    \E t \in Clients :
       /\ pc[t] = "ret"
       /\ op[t] \in CancelOps
       /\ at[t] = "probe"
       /\ ~ok[t]
       /\ chans[rc[rcv[t]]] # <<>>

\* C9 (FairSpecBlocked): a call whose cancel channel has fired returns, with
\* other calls running on the same Receiver and no further Write.
CancelledCallReturns ==
    \A t \in Clients :
       (pc[t] # "idle" /\ sig[t] = "fired") ~> (pc[t] = "idle")

\* C10 (SpecCancel): not found only on cancellation.  readCancel returns
\* found = false only with its cancel channel fired, so never for Read and
\* Peek; and what it found is the message a Write put in the Cell at the
\* cursor, never the zero message: the value of that Write.
NotFoundOnlyOnCancel ==
    \A t \in Clients :
       pc[t] = "ret" =>
          /\ ~ok[t] => sig[t] = "fired"
          /\ ok[t] =>
                /\ CellFilled(rc[rcv[t]])
                /\ msg[t] = CellMsg(rc[rcv[t]])
                /\ msg[t] # ZeroMessage
                /\ PosOf(rc[rcv[t]]) \in 1..Len(written)
                /\ msg[t].v = written[PosOf(rc[rcv[t]])]

\* C10 witness: a Peek, whose channel never fires, got the second value from
\* the Cell at the cursor after the first value was read.
NotFoundOnlyOnCancelWitness ==
    /\ pc["t1"] = "ret"
    /\ op["t1"] = "Peek"
    /\ ok["t1"]
    /\ Len(reads["r1"]) = 1
    /\ msg["t1"].v = written[2]
    /\ written[1] # written[2]

Passed(t) ==
    LET cells == ChainCells
        values == ChainValues
    IN  SubSeq(values, PosIn(cells, callAt[t]), PosIn(cells, rc[rcv[t]]) - 1)

\* No value of s has the shape g.
NoneFills(g, s) == \A i \in 1..Len(s) : ~Fill(g, s[i])

\* C12 (SpecMust): MustReadVal result.  With no other operation on the
\* Receiver, a MustReadVal returns only with a value that is written, sits in
\* the Cell at the cursor and has the shape asked for; every value between the
\* cursor at the call and that Cell has another shape, so it is the first
\* match; and the return leaves the cursor on the Cell right after the match.
\* While the call runs, all it has passed has another shape.
MustReadValResult ==
    /\ [][\A t \in Clients :
             Returns(t) /\ outer[t] = "MustReadVal" =>
                /\ ok[t] /\ Fill(tgt[t], msg[t].v)
                /\ msg[t] = CellMsg(rc[rcv[t]])
                /\ NoneFills(tgt[t], Passed(t))
                /\ rc'[rcv[t]] = msg[t].c
                /\ PosOf(msg[t].c) = PosOf(callAt[t]) + Len(Passed(t)) + 1]_vars
    /\ [](\A t \in Clients :
             outer[t] = "MustReadVal" =>
                /\ PosOf(callAt[t]) <= PosOf(rc[rcv[t]])
                /\ NoneFills(tgt[t], Passed(t)))

\* C12 witness: a MustReadVal that skipped one value of the other shape has
\* found a match in the next Cell and is about to return.
MustReadValResultWitness ==
    /\ pc["t1"] = "ret"
    /\ outer["t1"] = "MustReadVal"
    /\ op["t1"] = "ReadVal"
    /\ ok["t1"]
    /\ Fill(tgt["t1"], msg["t1"].v)
    /\ Len(Passed("t1")) = 1

\* C13 (FairSpecRace): same-Receiver operations are serialized.  A MustReadVal
\* or MustReadValCancel running while another client reads the same Receiver
\* discards, with its r.Read(), only values of another shape than the one it
\* was asked for.
MustDiscardsOnlyMismatches ==
    \A t \in Clients :
       outer[t] \in MustOps /\ op[t] = "Read" /\ pc[t] = "ret" /\ ok[t] =>
          ~Fill(tgt[t], msg[t].v)

LastOf(s, n) == SubSeq(s, Len(s) - n + 1, Len(s))

SinceCall(t) ==
    LET values == ChainValues
    IN  SubSeq(values, PosOf(callAt[t]), Len(values))

\* C16 (FairSpecChan): ReadChan preserves order without gaps.  What the
\* consumer has received from the output channel of an adapter that is the
\* only user of its Receiver is a run of the chain's values that starts at the
\* Cell the cursor was on when ReadChan was called; the value the goroutine
\* has read and not yet sent is the next of that run.
ChanInOrderNoGaps ==
    \A t \in Clients :
       outer[t] = "ReadChan" =>
          /\ IsPrefix(out[t], SinceCall(t))
          /\ pc[t] = "send" => IsPrefix(Append(out[t], msg[t].v), SinceCall(t))

\* C16 witness: the consumer has received two different values from vc.
ChanInOrderNoGapsWitness ==
    /\ Len(out["t1"]) = 2
    /\ out["t1"][1] # out["t1"][2]

\* C17 as stated (FairSpecChan): the channel adapter closes on stop with
\* exactly the values received before the stop.  When the consumer closed cc
\* right after it received its k-th value (k >= 1), went on receiving, and vc
\* is closed, it has received exactly k values.
ChanStopsAtOnce ==
    \A t \in Clients :
       closes[t] > 0 /\ cpc[t] = "recv" =>
          \A k \in stopAt[t] : k >= 1 => Len(out[t]) = k

\* C17 amended (FairSpecChan): the channel adapter closes on stop with at
\* most one value more.  Once the consumer has closed cc after it received its
\* k-th value, it receives at most one value more, the (k+1)-th of the run,
\* which the goroutine had read or was about to read when cc was closed; when
\* vc is closed the consumer has received the first k or the first k+1 values
\* of the run that starts at the cursor ReadChan was called at.
ChanStopsWithinOne ==
    \A t \in Clients :
       \A k \in stopAt[t] :
          /\ k <= Len(out[t])
          /\ Len(out[t]) <= k + 1
          /\ IsPrefix(out[t], SinceCall(t))
          /\ closes[t] > 0 => pc[t] = "closed"

\* C17 witness: the consumer closed cc after the first value, received the
\* second after that, and vc is closed.
ChanStopsWithinOneWitness ==
    /\ closes["t1"] = 1
    /\ stopAt["t1"] = {1}
    /\ cpc["t1"] = "recv"
    /\ Len(out["t1"]) = 2

\* C18 (FairSpecChan): the ReadChan output is closed on every exit path.  Once
\* the consumer has closed cc, the goroutine leaves its loop and vc is closed.
ChanClosedAfterStop ==
    \A t \in Clients :
       (outer[t] = "ReadChan" /\ sig[t] = "fired") ~> (closes[t] = 1)

\* C19 (SpecShared): ReadChan locks the receiver.  From the start of the
\* ReadChan goroutine until vc is closed no other client's call on the same
\* Receiver gets a value, and all that was read from the Receiver since went
\* to the adapter: it is on vc or about to be sent on it.
ChanHoldsReceiver ==
    \A t \in Clients :
       outer[t] = "ReadChan" /\ pc[t] # "closed" =>
          /\ \A u \in Clients \ {t} :
                rcv[u] = rcv[t] => ~(pc[u] = "ret" /\ ok[u])
          /\ PosOf(rc[rcv[t]]) - PosOf(callAt[t]) =
                Len(out[t]) + (IF pc[t] = "send" THEN 1 ELSE 0)

\* The Cell at the end of the chain: the first one not filled.
TailCell == LET cells == ChainCells IN cells[Len(cells)]

\* The Cells made by Write calls that have not sent yet.
PendingCells == {wc[w] : w \in {x \in Writers : wpc[x] \in {"lock", "send"}}}

\* C20 (FairSpecWrite): value chain invariant.  The Cells reached from the first one
\* form one chain without a repeated Cell, all filled but the last; every Cell
\* made is on that chain or is the new Cell of a Write that has not sent yet;
\* the write cursor is on the unfilled tail, except between the send and the
\* `b.c = c` of the Write that holds the lock, when it is on the Cell just
\* filled and the tail is that Write's new Cell.  The chain only grows at its
\* end and its values never change; a Write's send fills the tail with its
\* value and appends its new Cell.
ValueChain ==
    /\ [](LET cells == ChainCells
          IN  /\ \A i, j \in 1..Len(cells) : cells[i] = cells[j] => i = j
              /\ ~CellFilled(TailCell)
              /\ \A c \in 1..Len(chans) :
                    /\ Len(chans[c]) <= ChanCap
                    /\ (\E i \in 1..Len(cells) : cells[i] = c) # (c \in PendingCells)
              /\ IF \E w \in Writers : wpc[w] = "advance"
                    THEN /\ Len(cells) > 1
                         /\ bc = cells[Len(cells) - 1]
                         /\ \A w \in Writers :
                               wpc[w] = "advance" => wc[w] = TailCell
                    ELSE bc = TailCell)
    /\ [][/\ IsPrefix(ChainCells, ChainCells')
          /\ IsPrefix(ChainValues, ChainValues')
          /\ \A w \in Writers :
                wpc[w] = "send" /\ wpc'[w] = "advance" =>
                   /\ bc = TailCell
                   /\ ChainCells' = Append(ChainCells, wc[w])
                   /\ ChainValues' = Append(ChainValues, wv[w])]_vars

\* C20 witness: two Write calls have filled two Cells, the second with another
\* value than the first, and the write cursor is on the third, unfilled.
ValueChainWitness ==
    /\ Len(ChainCells) = 3
    /\ ChainValues[1] # ChainValues[2]
    /\ bc = TailCell
    /\ bmx = Free
    /\ \E t \in Clients : pc[t] = "putback"

\* C21 (FairSpecRace): the read cursor moves one Cell forward at a time.  The
\* cursor of a Receiver is on a Cell of the chain, the unfilled tail at the
\* furthest; and every step, whichever of the clients calling operations on
\* the Receiver takes it, leaves the cursor where it is or moves it from a
\* filled Cell to the Cell that Cell's message names, the next of the chain.
CursorStepsForward ==
    /\ [](\A r \in Receivers :
             lpc[r] = "done" =>
                /\ PosOf(rc[r]) >= 1
                /\ PosOf(rc[r]) <= Len(ChainValues) + 1)
    /\ [][\A r \in Receivers :
             lpc[r] = "done" =>
                \/ rc'[r] = rc[r]
                \/ /\ CellFilled(rc[r])
                   /\ rc'[r] = CellMsg(rc[r]).c
                   /\ PosOf(rc'[r]) = PosOf(rc[r]) + 1]_vars

\* C21 witness: the cursor of r1, handed out on the first Cell, has moved
\* twice, once for each value read, and stands on the unfilled tail, where
\* both clients are in a call on r1, one of them in its wait.
CursorStepsForwardWitness ==
    /\ listenAt["r1"] = 0
    /\ Len(reads["r1"]) = 2
    /\ PosOf(rc["r1"]) = 3
    /\ ~CellFilled(rc["r1"])
    /\ rcv["t1"] = "r1" /\ rcv["t2"] = "r1"
    /\ pc["t1"] = "wait" /\ pc["t2"] = "lock"

\* C22 (Spec): a filled Cell is immutable and its re-insertion never blocks.
\* A Cell's channel holds at most one message; at most one client, over all
\* Receivers, has a Cell's message out of it, and then the channel is empty,
\* so its put-back send can proceed.  The message in or out of the i-th Cell
\* of the chain is the i-th value written and the (i+1)-th Cell, which is what
\* a call that got a value holds; and no step changes the message of a filled
\* Cell or empties the Cell for good.
FilledCellImmutable ==
    /\ [](LET cells == ChainCells
          IN  /\ \A c \in 1..Len(chans) :
                    /\ Len(chans[c]) <= ChanCap
                    /\ Cardinality({t \in Clients : pc[t] = "putback"
                                                   /\ rc[rcv[t]] = c}) <= 1
                    /\ Holders(c) # {} => chans[c] = <<>>
              /\ \A i \in 1..(Len(cells) - 1) :
                    CellMsg(cells[i]) = [v |-> written[i], c |-> cells[i + 1]]
              /\ \A t \in Clients :
                    /\ pc[t] = "putback" =>
                          /\ CanSend(rc[rcv[t]])
                          /\ \E i \in 1..(Len(cells) - 1) :
                                /\ cells[i] = rc[rcv[t]]
                                /\ msg[t] = [v |-> written[i],
                                             c |-> cells[i + 1]]
                    /\ pc[t] = "ret" /\ ok[t] =>
                          msg[t] = CellMsg(rc[rcv[t]]))
    /\ [][\A c \in 1..Len(chans) :
             CellFilled(c) => CellFilled(c)' /\ CellMsg(c)' = CellMsg(c)]_vars

\* C22 witness: the client of r1 has the second Cell's message out of its
\* channel while the client of r2 is about to return with the first Cell's
\* message, which the client of r1 read and put back before.
FilledCellImmutableWitness ==
    /\ pc["t1"] = "putback"
    /\ PosOf(rc["r1"]) = 2
    /\ reads["r1"] = <<written[1]>>
    /\ pc["t2"] = "ret"
    /\ ok["t2"]
    /\ rc["r2"] = FirstCell
    /\ msg["t2"].v = reads["r1"][1]
    /\ msg["t1"].v # msg["t2"].v

\* C23 (FairSpecChan): the ReadChan adapter stops only on request.  The
\* goroutine heads for close(vc), and vc is closed, at most once, only after
\* the consumer closed cc.  And the goroutine does not end the sequence by
\* itself: as long as the consumer neither closes cc nor stops receiving, a
\* value written past those already received is received by the consumer, the
\* goroutine waiting for it on the unfilled Cell in between.
ChanStopsOnlyOnRequest ==
    /\ [](\A t \in Clients :
             /\ closes[t] <= 1
             /\ closes[t] > 0 \/ pc[t] \in {"close", "closed"}
                   => sig[t] = "fired" /\ stopAt[t] # NoStop
             /\ outer[t] = "ReadChan" /\ sig[t] = "open" /\ pc[t] = "ret"
                   => ok[t])
    /\ \A t \in Clients : \A n \in 0..MaxWrites :
          (outer[t] = "ReadChan" /\ Len(out[t]) = n /\ Len(SinceCall(t)) > n)
             ~> (Len(out[t]) > n \/ sig[t] = "fired" \/ cpc[t] = "gone")

\* C23 witness: the consumer has received the one value written so far, cc is
\* open, and the goroutine waits in its select on the unfilled Cell while the
\* next Write is about to send.
ChanStopsOnlyOnRequestWitness ==
    /\ outer["t1"] = "ReadChan"
    /\ sig["t1"] = "open"
    /\ cpc["t1"] = "recv"
    /\ pc["t1"] = "wait"
    /\ ~CellFilled(rc["r1"])
    /\ Len(out["t1"]) = 1
    /\ out["t1"] = SinceCall("t1")
    /\ wpc["w1"] = "send"
=============================================================================
